---- MODULE Spec2Model ----
(***************************************************************************)
(* Latest-version resolution of src/versions/drafts/queryDrafts.ts:        *)
(* queryDrafts dispatches one call to queryDraftsV1 (sort + group + match  *)
(* aggregation) or queryDraftsV2 (latest flag).  One call is followed from *)
(* its arguments to its outcome; every await is a step of its own, and the *)
(* store and the query builder are the collaborators of spec.md section 6. *)
(*                                                                         *)
(* A dotted key of the store ("version.status") is the sequence of its     *)
(* path segments (<<"version", "status">>); prefixing a key with           *)
(* `version.` is prepending the segment "version".                         *)
(***************************************************************************)
EXTENDS Integers, Sequences, FiniteSets, TLC

VARIABLES store, args, pc, invoked, built, versionQuery, aggregate, options,
          ops, result, outcome, failedOp, floating

vars == <<store, args, pc, invoked, built, versionQuery, aggregate, options,
          ops, result, outcome, failedOp, floating>>

(***************************************************************************)
(* Bounds and input domains.                                               *)
(***************************************************************************)
MaxRecords == 2

MaxSortLen == 2

Parents == {"X", "Y"}

Times == {10, 20}

\* The version payloads: the published one carries fields named like the metadata.
Versions ==
  { [status |-> "draft"],
    [status |-> "published", _id |-> "Z", id |-> "Z", createdAt |-> 5, updatedAt |-> 5] }

RecordIds == <<"v1", "v2", "v3", "v4">>

\* The i-th version record written to the store: createdAt is its creation rank.
VersionRecord(i, f) ==
  [_id |-> RecordIds[i], parent |-> f.parent, version |-> f.version,
   updatedAt |-> f.updatedAt, createdAt |-> i, latest |-> f.latest]

RecordFields == [parent : Parents, version : Versions, updatedAt : Times, latest : BOOLEAN]

Stores ==
  UNION { { [i \in 1..n |-> VersionRecord(i, s[i])] : s \in [1..n -> RecordFields] } :
          n \in 0..MaxRecords }

\* A Where is a conjunction of field constraints, in order.
PublishedOnly == <<[path |-> <<"status">>, equals |-> "published"]>>

Wheres == {<<>>, PublishedOnly}

\* AccessResult: true (isWhere = FALSE) or a Where predicate.
AllowAll == [isWhere |-> FALSE, where |-> <<>>]

AccessResults == {AllowAll, [isWhere |-> TRUE, where |-> PublishedOnly]}

\* The payload object: without config, without database, flag off, flag on.
PayloadObjects ==
  { [name |-> "payload"],
    [config |-> [serverURL |-> "local"]],
    [config |-> [database |-> [queryDrafts_2_0 |-> FALSE]]],
    [config |-> [database |-> [queryDrafts_2_0 |-> TRUE]]] }

SortKeys == {<<"_id">>, <<"id">>, <<"createdAt">>, <<"updatedAt">>, <<"status">>, <<"title">>}

Orders == {"asc", "desc"}

SortEntries == [key : SortKeys, order : Orders]

\* A sort specification is an object: its keys are distinct, in insertion order.
SortSpecs ==
  UNION { { s \in [1..n -> SortEntries] : \A i, j \in 1..n : s[i].key = s[j].key => i = j } :
          n \in 0..MaxSortLen }

NoPagination == [present |-> FALSE, hasSort |-> FALSE, sort |-> <<>>, limit |-> 1, page |-> 1]

Paginated(hasSort, sort, limit, page) ==
  [present |-> TRUE, hasSort |-> hasSort, sort |-> sort, limit |-> limit, page |-> page]

PageWindows == {<<1, 1>>, <<1, 2>>, <<MaxRecords, 1>>}

MainSorts ==
  { <<[key |-> <<"updatedAt">>, order |-> "asc"]>>,
    <<[key |-> <<"status">>, order |-> "desc"]>> }

MainPaginations ==
  {NoPagination, Paginated(FALSE, <<>>, 1, 1)}
    \cup { Paginated(TRUE, s, w[1], w[2]) : s \in MainSorts, w \in PageWindows }

SortPaginations == { Paginated(TRUE, s, MaxRecords, 1) : s \in SortSpecs }

\* The store of the sort-specification runs: two versions of X and one of Y.
SortStore ==
  [i \in 1..2 |->
     VersionRecord(i, [parent |-> IF i = 1 THEN "X" ELSE "Y",
                       version |-> IF i = 1 THEN [status |-> "draft"] ELSE [status |-> "published"],
                       updatedAt |-> 10, latest |-> TRUE])]

(***************************************************************************)
(* Values and documents.                                                   *)
(***************************************************************************)
\* { ...a, ...b }: the later object wins.
Spread(a, b) == b @@ a

RECURSIVE Has(_, _)
Has(doc, path) ==
  IF path = <<>> THEN TRUE
  ELSE Head(path) \in DOMAIN doc /\ Has(doc[Head(path)], Tail(path))

RECURSIVE Get(_, _)
Get(doc, path) ==
  IF path = <<>> THEN doc ELSE Get(doc[Head(path)], Tail(path))

\* The store matches a key at the top level or inside the nested payload.
Resolve(doc, path) ==
  IF Has(doc, path) THEN path ELSE <<"version">> \o path

Matches(doc, query) ==
  \A i \in 1..Len(query) :
    LET p == Resolve(doc, query[i].path)
    IN  Has(doc, p) /\ Get(doc, p) = query[i].equals

StrOrder == <<"X", "Y", "Z", "draft", "published", "v1", "v2", "v3", "v4">>

NumericFields == {"updatedAt", "createdAt"}

\* The collation of the store: a missing field sorts first.
Rank(doc, path) ==
  IF ~Has(doc, path) THEN 0
  ELSE LET v == Get(doc, path)
       IN  IF path[Len(path)] \in NumericFields THEN v
           ELSE CHOOSE i \in 1..Len(StrOrder) : StrOrder[i] = v

RECURSIVE Before(_, _, _)
Before(a, b, sort) ==
  IF sort = <<>> THEN FALSE
  ELSE LET ra == Rank(a, Head(sort).key)
           rb == Rank(b, Head(sort).key)
       IN  IF ra = rb THEN Before(a, b, Tail(sort))
           ELSE IF Head(sort).order = 1 THEN ra < rb ELSE ra > rb

RECURSIVE InsertSorted(_, _, _)
InsertSorted(sorted, x, sort) ==
  IF sorted = <<>> THEN <<x>>
  ELSE IF Before(x, Head(sorted), sort) THEN <<x>> \o sorted
       ELSE <<Head(sorted)>> \o InsertSorted(Tail(sorted), x, sort)

\* A stable sort by the signed sort specification.
RECURSIVE SortBy(_, _)
SortBy(rows, sort) ==
  IF rows = <<>> THEN <<>>
  ELSE InsertSorted(SortBy(SubSeq(rows, 1, Len(rows) - 1), sort), rows[Len(rows)], sort)

RECURSIVE SelectMatching(_, _)
SelectMatching(rows, query) ==
  IF rows = <<>> THEN <<>>
  ELSE (IF Matches(Head(rows), query) THEN <<Head(rows)>> ELSE <<>>)
         \o SelectMatching(Tail(rows), query)

Min(a, b) == IF a < b THEN a ELSE b

\* The uniform paginated shape of the store.
Paginate(rows, opts) ==
  LET sorted == SortBy(rows, opts.sort)
      total == Len(sorted)
      pages == IF total = 0 THEN 1 ELSE (total + opts.limit - 1) \div opts.limit
      from == (opts.page - 1) * opts.limit + 1
      to == Min(opts.page * opts.limit, total)
  IN  [docs |-> SubSeq(sorted, from, to), total |-> total, limit |-> opts.limit,
       page |-> opts.page, totalPages |-> pages,
       hasNextPage |-> opts.page < pages, hasPrevPage |-> opts.page > 1]

Unpaginated(rows) ==
  [docs |-> rows, total |-> Len(rows), limit |-> Len(rows), page |-> 1, totalPages |-> 1,
   hasNextPage |-> FALSE, hasPrevPage |-> FALSE]

(***************************************************************************)
(* Collaborators of the repository that are not part of this file.         *)
(***************************************************************************)
\* Query Key Rewriter (spec 4.4): the metadata keys stay, the others are nested.
RewriterMetadataKeys == {<<"id">>, <<"createdAt">>, <<"updatedAt">>}

appendVersionToQueryKey(where) ==
  [i \in 1..Len(where) |->
     [path |-> IF where[i].path \in RewriterMetadataKeys THEN where[i].path
               ELSE <<"version">> \o where[i].path,
      equals |-> where[i].equals]]

hasWhereAccessResult(accessResult) == accessResult.isWhere

\* Predicate Combiner (spec 4.5): an empty side is the identity.
combineQueries(p1, p2) ==
  IF p1 = <<>> THEN p2 ELSE IF p2 = <<>> THEN p1 ELSE p1 \o p2

\* Store query-builder (spec 6): one executable predicate of filter and access.
buildQuery(b) ==
  IF hasWhereAccessResult(b.access) THEN combineQueries(b.where, b.access.where)
  ELSE b.where

\* $group keeps the first document met for each value of stage.by.
RECURSIVE GroupFirst(_, _, _)
GroupFirst(docs, stage, seen) ==
  IF docs = <<>> THEN <<>>
  ELSE LET d == Head(docs)
           g == Get(d, stage.by)
       IN  IF g \in seen THEN GroupFirst(Tail(docs), stage, seen)
           ELSE <<[_id |-> g] @@ [f \in stage.first |-> d[f]]>>
                  \o GroupFirst(Tail(docs), stage, seen \cup {g})

RunStage(docs, stage) ==
  CASE stage.op = "$sort" -> SortBy(docs, stage.sort)
    [] stage.op = "$group" -> GroupFirst(docs, stage, {})
    [] stage.op = "$match" -> SelectMatching(docs, stage.query)

RECURSIVE RunPipeline(_, _)
RunPipeline(docs, pipeline) ==
  IF pipeline = <<>> THEN docs
  ELSE RunPipeline(RunStage(docs, Head(pipeline)), Tail(pipeline))

\* The natural iteration orders of a collection of n documents.
NaturalOrders(n) == { p \in [1..n -> 1..n] : \A i, j \in 1..n : p[i] = p[j] => i = j }

Permute(docs, p) == [i \in 1..Len(docs) |-> docs[p[i]]]

StoreAggregatePaginate(docs, pipeline, opts) == Paginate(RunPipeline(docs, pipeline), opts)

StorePaginate(docs, query, opts) == Paginate(SelectMatching(docs, query), opts)

StoreFind(docs, query) == Unpaginated(SelectMatching(docs, query))

(***************************************************************************)
(* queryDrafts.ts                                                          *)
(***************************************************************************)
Undefined == [undefined |-> TRUE]

\* The promise of aggregate.exec(): an object without a docs property.
PendingPromise == [promise |-> "exec"]

Pending == [kind |-> "pending"]

Returned(v) == [kind |-> "returned", value |-> v]

Thrown(e) == [kind |-> "thrown", error |-> e]

TypeError == [name |-> "TypeError", op |-> "none"]

StoreFailure(op) == [name |-> "StoreFailure", op |-> op]

\* args.payload.config?.database?.queryDrafts_2_0
FlagOf(payload) ==
  /\ "config" \in DOMAIN payload
  /\ "database" \in DOMAIN payload.config
  /\ "queryDrafts_2_0" \in DOMAIN payload.config.database
  /\ payload.config.database.queryDrafts_2_0

SelectAggregation(payload) == "V1"

Select(payload) == IF FlagOf(payload) THEN "V2" ELSE "V1"

PipelineMatchFirst(query) ==
  << [op |-> "$match", query |-> query],
     [op |-> "$sort", sort |-> <<[key |-> <<"updatedAt">>, order |-> -1]>>],
     [op |-> "$group", by |-> <<"parent">>, first |-> {"version", "updatedAt", "createdAt"}] >>

Pipeline(query) ==
  << [op |-> "$sort", sort |-> <<[key |-> <<"updatedAt">>, order |-> -1]>>],
     [op |-> "$group", by |-> <<"parent">>, first |-> {"version", "updatedAt", "createdAt"}],
     [op |-> "$match", query |-> query] >>

V1MetadataSortKeys == {<<"createdAt">>, <<"updatedAt">>, <<"_id">>}

V2MetadataSortKeys == {<<"createdAt">>, <<"updatedAt">>, <<"_id">>}

\* { ...sort, [key]: order }: an existing key keeps its place and takes the value.
PutKey(sort, key, order) ==
  IF \E i \in 1..Len(sort) : sort[i].key = key
  THEN [i \in 1..Len(sort) |->
          IF sort[i].key = key THEN [key |-> key, order |-> order] ELSE sort[i]]
  ELSE Append(sort, [key |-> key, order |-> order])

SortKeyOf(incomingSortKey, metadataKeys) ==
  IF incomingSortKey \notin metadataKeys THEN <<"version">> \o incomingSortKey
  ELSE incomingSortKey

SortOrderOf(order) == IF order = "asc" THEN 1 ELSE -1

RECURSIVE RemapSort(_, _, _)
RemapSort(entries, sort, metadataKeys) ==
  IF entries = <<>> THEN sort
  ELSE RemapSort(Tail(entries),
                 PutKey(sort, SortKeyOf(Head(entries).key, metadataKeys),
                        SortOrderOf(Head(entries).order)),
                 metadataKeys)

V1Options(p) ==
  [sort |-> RemapSort(p.sort, <<>>, V1MetadataSortKeys), limit |-> p.limit, page |-> p.page]

V2Options(p) ==
  [sort |-> RemapSort(p.sort, <<>>, V2MetadataSortKeys), limit |-> p.limit, page |-> p.page,
   lean |-> TRUE, leanWithId |-> TRUE]

NormalizeV1(doc) ==
  Spread(Spread([_id |-> doc._id], doc.version),
         [updatedAt |-> doc.updatedAt, createdAt |-> doc.createdAt])

NormalizeV2(doc) ==
  Spread(Spread([_id |-> doc.parent, id |-> doc.parent], doc.version),
         [updatedAt |-> doc.updatedAt, createdAt |-> doc.createdAt])

WithDocsOnly(res, docs) == [docs |-> docs]

WithDocs(res, docs) == Spread(res, [docs |-> docs])

\* The return statement: result.docs.map throws when result has no docs.
V1Outcome(res) ==
  IF "docs" \in DOMAIN res
  THEN Returned(WithDocs(res, [i \in 1..Len(res.docs) |-> NormalizeV1(res.docs[i])]))
  ELSE Thrown(TypeError)

V2Outcome(res) ==
  IF "docs" \in DOMAIN res
  THEN Returned(WithDocs(res, [i \in 1..Len(res.docs) |-> NormalizeV2(res.docs[i])]))
  ELSE Thrown(TypeError)

V2CombinedQueryWhereOnly(where) == where

V2CombinedQuery(where) ==
  combineQueries(<<[path |-> <<"latest">>, equals |-> TRUE]>>, where)

NoBuilt == [where |-> <<>>, access |-> AllowAll]

NoOptions == [sort |-> <<>>, limit |-> 1, page |-> 1]

Awaiting == {"V1_buildQuery", "V1_paginate", "V2_buildQuery", "V2_paginate", "V2_find"}

(***************************************************************************)
(* Initial states: a store, and the arguments of the call.                 *)
(***************************************************************************)
InitMain ==
  /\ store \in Stores
  /\ args \in [payload : PayloadObjects, accessResult : AccessResults, where : Wheres,
               paginationOptions : MainPaginations]

InitSort ==
  /\ store = SortStore
  /\ args \in [payload : PayloadObjects, accessResult : {AllowAll}, where : {<<>>},
               paginationOptions : SortPaginations]

Init ==
  /\ InitMain \/ InitSort
  /\ pc = "idle"
  /\ invoked = <<>>
  /\ built = NoBuilt
  /\ versionQuery = <<>>
  /\ aggregate = <<>>
  /\ options = NoOptions
  /\ ops = <<>>
  /\ result = Undefined
  /\ outcome = Pending
  /\ failedOp = "none"
  /\ floating = "none"

(***************************************************************************)
(* Steps of one call.                                                      *)
(***************************************************************************)
\* queryDrafts: dispatch on the flag.
Call ==
  /\ pc = "idle"
  /\ invoked' = Append(invoked, Select(args.payload))
  /\ pc' = Select(args.payload)
  /\ UNCHANGED <<store, args, built, versionQuery, aggregate, options, ops, result,
                 outcome, failedOp, floating>>

\* queryDraftsV1 up to the await of buildQuery.
V1BuildQuery ==
  /\ pc = "V1"
  /\ built' = [where |-> appendVersionToQueryKey(args.where),
               access |-> IF hasWhereAccessResult(args.accessResult)
                          THEN [isWhere |-> TRUE,
                                where |-> appendVersionToQueryKey(args.accessResult.where)]
                          ELSE AllowAll]
  /\ ops' = Append(ops, "buildQuery")
  /\ pc' = "V1_buildQuery"
  /\ UNCHANGED <<store, args, invoked, versionQuery, aggregate, options, result,
                 outcome, failedOp, floating>>

\* buildQuery resolves; the aggregation pipeline is assembled.
V1Aggregate ==
  /\ pc = "V1_buildQuery"
  /\ versionQuery' = buildQuery(built)
  /\ aggregate' = Pipeline(versionQuery')
  /\ ops' = Append(ops, "aggregate")
  /\ pc' = "V1_aggregate"
  /\ UNCHANGED <<store, args, invoked, built, options, result, outcome, failedOp, floating>>

\* The paginated branch: the sort is remapped and aggregatePaginate awaited.
V1Paginate ==
  /\ pc = "V1_aggregate"
  /\ args.paginationOptions.present
  /\ args.paginationOptions.hasSort
  /\ options' = V1Options(args.paginationOptions)
  /\ ops' = Append(ops, "aggregatePaginate")
  /\ pc' = "V1_paginate"
  /\ UNCHANGED <<store, args, invoked, built, versionQuery, aggregate, result, outcome,
                 failedOp, floating>>

\* Object.entries(undefined) throws when the pagination options carry no sort.
V1SortMissing ==
  /\ pc = "V1_aggregate"
  /\ args.paginationOptions.present
  /\ ~args.paginationOptions.hasSort
  /\ outcome' = Thrown(TypeError)
  /\ pc' = "done"
  /\ UNCHANGED <<store, args, invoked, built, versionQuery, aggregate, options, ops, result,
                 failedOp, floating>>

\* The other branch: exec() is not awaited, result is its promise, and the
\* return statement reads result.docs.
V1Exec ==
  /\ pc = "V1_aggregate"
  /\ ~args.paginationOptions.present
  /\ ops' = Append(ops, "exec")
  /\ result' = PendingPromise
  /\ floating' = "pending"
  /\ outcome' = V1Outcome(result')
  /\ pc' = "done"
  /\ UNCHANGED <<store, args, invoked, built, versionQuery, aggregate, options, failedOp>>

\* aggregatePaginate resolves; the rows are normalized and returned.
V1Return ==
  /\ pc = "V1_paginate"
  /\ \E tie \in NaturalOrders(Len(store)) :
       result' = StoreAggregatePaginate(Permute(store, tie), aggregate, options)
  /\ outcome' = V1Outcome(result')
  /\ pc' = "done"
  /\ UNCHANGED <<store, args, invoked, built, versionQuery, aggregate, options, ops,
                 failedOp, floating>>

\* queryDraftsV2 up to the await of buildQuery.
V2BuildQuery ==
  /\ pc = "V2"
  /\ built' = [where |-> V2CombinedQuery(args.where), access |-> args.accessResult]
  /\ ops' = Append(ops, "buildQuery")
  /\ pc' = "V2_buildQuery"
  /\ UNCHANGED <<store, args, invoked, versionQuery, aggregate, options, result,
                 outcome, failedOp, floating>>

V2Paginate ==
  /\ pc = "V2_buildQuery"
  /\ args.paginationOptions.present
  /\ args.paginationOptions.hasSort
  /\ versionQuery' = buildQuery(built)
  /\ options' = V2Options(args.paginationOptions)
  /\ ops' = Append(ops, "paginate")
  /\ pc' = "V2_paginate"
  /\ UNCHANGED <<store, args, invoked, built, aggregate, result, outcome, failedOp, floating>>

V2SortMissing ==
  /\ pc = "V2_buildQuery"
  /\ args.paginationOptions.present
  /\ ~args.paginationOptions.hasSort
  /\ versionQuery' = buildQuery(built)
  /\ outcome' = Thrown(TypeError)
  /\ pc' = "done"
  /\ UNCHANGED <<store, args, invoked, built, aggregate, options, ops, result,
                 failedOp, floating>>

V2Find ==
  /\ pc = "V2_buildQuery"
  /\ ~args.paginationOptions.present
  /\ versionQuery' = buildQuery(built)
  /\ ops' = Append(ops, "find")
  /\ pc' = "V2_find"
  /\ UNCHANGED <<store, args, invoked, built, aggregate, options, result, outcome,
                 failedOp, floating>>

\* paginate or find resolves; the rows are normalized and returned.
V2Return ==
  /\ pc \in {"V2_paginate", "V2_find"}
  /\ result' = IF pc = "V2_paginate" THEN StorePaginate(store, versionQuery, options)
               ELSE StoreFind(store, versionQuery)
  /\ outcome' = V2Outcome(result')
  /\ pc' = "done"
  /\ UNCHANGED <<store, args, invoked, built, versionQuery, aggregate, options, ops,
                 failedOp, floating>>

\* An awaited collaborator rejects: the await rethrows its failure.
AwaitRejects ==
  /\ pc \in Awaiting
  /\ failedOp' = ops[Len(ops)]
  /\ outcome' = Thrown(StoreFailure(ops[Len(ops)]))
  /\ pc' = "done"
  /\ UNCHANGED <<store, args, invoked, built, versionQuery, aggregate, options, ops, result,
                 floating>>

\* The promise of exec() that nobody awaits settles on its own.
FloatingSettles ==
  /\ floating = "pending"
  /\ \E s \in {"fulfilled", "rejected"} :
       /\ floating' = s
       /\ failedOp' = IF s = "rejected" THEN "exec" ELSE failedOp
  /\ UNCHANGED <<store, args, pc, invoked, built, versionQuery, aggregate, options, ops,
                 result, outcome>>

Next ==
  \/ Call
  \/ V1BuildQuery
  \/ V1Aggregate
  \/ V1Paginate
  \/ V1SortMissing
  \/ V1Exec
  \/ V1Return
  \/ V2BuildQuery
  \/ V2Paginate
  \/ V2SortMissing
  \/ V2Find
  \/ V2Return
  \/ AwaitRejects
  \/ FloatingSettles

Spec == Init /\ [][Next]_vars

(***************************************************************************)
(* Vocabulary of the properties.                                           *)
(***************************************************************************)
Done == pc = "done"

HasReturned == pc = "done" /\ outcome.kind = "returned"

StrategyA == invoked = <<"V1">>

StrategyB == invoked = <<"V2">>

StoreParents == { store[i].parent : i \in 1..Len(store) }

RecordsOf(p) == { i \in 1..Len(store) : store[i].parent = p }

\* The records of p that no record of p is more recently updated than.
NewestOf(p) ==
  { i \in RecordsOf(p) : \A j \in RecordsOf(p) : store[j].updatedAt <= store[i].updatedAt }

MarkedOf(p) == { i \in RecordsOf(p) : store[i].latest }

\* The caller's filter and the access predicate, read on a version's payload.
CallerConstraints ==
  args.where \o (IF args.accessResult.isWhere THEN args.accessResult.where ELSE <<>>)

Satisfies(rec) ==
  \A k \in 1..Len(CallerConstraints) :
    /\ CallerConstraints[k].path[1] \in DOMAIN rec.version
    /\ rec.version[CallerConstraints[k].path[1]] = CallerConstraints[k].equals

Unfiltered == args.where = <<>> /\ ~args.accessResult.isWhere

\* The owner of the i-th row the store returned: the group id or the parent.
OwnerOfRow(i) == IF StrategyA THEN result.docs[i]._id ELSE result.docs[i].parent

RowsOwnedBy(p) == { i \in 1..Len(result.docs) : OwnerOfRow(i) = p }

SortRemapped == \E k \in 1..Len(ops) : ops[k] \in {"aggregatePaginate", "paginate"}

(***************************************************************************)
(* Properties.                                                             *)
(***************************************************************************)
\* The page, when one is requested, holds every row of n owners.
PageHoldsAll(n) ==
  \/ ~args.paginationOptions.present
  \/ /\ args.paginationOptions.hasSort
     /\ args.paginationOptions.page = 1
     /\ args.paginationOptions.limit >= n

\* C1: with no filter and unrestricted access, a call of Strategy A that no
\* store failure ended returns exactly one entity per distinct parentId of the
\* store, carrying the payload, createdAt and updatedAt of a version record of
\* that parentId with the maximum updatedAt.
C1_AggregationOnePerParent ==
  (Done /\ StrategyA /\ Unfiltered /\ failedOp = "none" /\ StoreParents # {}
     /\ PageHoldsAll(Cardinality(StoreParents)))
    => /\ outcome.kind = "returned"
       /\ \A p \in StoreParents :
            /\ Cardinality(RowsOwnedBy(p)) = 1
            /\ \A i \in RowsOwnedBy(p) :
                 \E r \in NewestOf(p) :
                   /\ outcome.value.docs[i].status = store[r].version.status
                   /\ outcome.value.docs[i].createdAt = store[r].createdAt
                   /\ outcome.value.docs[i].updatedAt = store[r].updatedAt

\* C2: under Strategy A the predicate built from the caller's filter and the
\* access predicate is evaluated on the version resolved by the sort by
\* updatedAt descending and the group by parent: every returned row is a most
\* recently updated version of its parentId and that version satisfies the
\* filter and the access predicate; a parentId whose most recent versions all
\* fail them is absent from the result, whatever its older versions are.
C2_FilterOnResolvedLatest ==
  (StrategyA /\ HasReturned)
    => /\ Len(versionQuery) = Len(CallerConstraints)
       /\ \A i \in 1..Len(result.docs) :
            \E r \in NewestOf(result.docs[i]._id) :
              /\ result.docs[i].version = store[r].version
              /\ result.docs[i].createdAt = store[r].createdAt
              /\ Satisfies(store[r])
       /\ \A p \in StoreParents :
            (\A r \in NewestOf(p) : ~Satisfies(store[r])) => RowsOwnedBy(p) = {}

\* A parentId whose newest version fails the filter while an older one passes
\* it, left out of a result of Strategy A.
C2_Witness ==
  /\ StrategyA /\ HasReturned
  /\ CallerConstraints # <<>>
  /\ \E p \in StoreParents :
       /\ \A r \in NewestOf(p) : ~Satisfies(store[r])
       /\ \E r \in RecordsOf(p) : Satisfies(store[r])
       /\ RowsOwnedBy(p) = {}

MarkedRecords == { i \in 1..Len(store) : store[i].latest }

\* C3 (as stated): for every store content, Strategy B with no caller filter
\* returns exactly one entity per parentId that has a record with latest = true
\* and none for the other parentIds, and hands the store the conjunction of
\* latest == true with the caller's filter.  Read on results that neither an
\* access predicate nor a page cuts.
C3_Original ==
  /\ (StrategyB /\ pc # "V2")
       => built.where = <<[path |-> <<"latest">>, equals |-> TRUE]>> \o args.where
  /\ (StrategyB /\ HasReturned /\ Unfiltered /\ PageHoldsAll(Cardinality(MarkedRecords)))
       => \A p \in Parents :
            Cardinality(RowsOwnedBy(p)) = (IF MarkedOf(p) # {} THEN 1 ELSE 0)

\* C3 (amended): the query Strategy B hands to the query builder is the
\* conjunction of latest == true with the caller's filter; with no caller
\* filter, unrestricted access, at most one record marked latest per parentId
\* and a result that is not cut by a page, it returns exactly one entity per
\* parentId that has a marked record and none for the other parentIds.
C3_FlagStrategyOnePerMarked ==
  /\ (StrategyB /\ pc # "V2")
       => built.where = <<[path |-> <<"latest">>, equals |-> TRUE]>> \o args.where
  /\ (StrategyB /\ HasReturned /\ Unfiltered
        /\ (\A p \in Parents : Cardinality(MarkedOf(p)) <= 1)
        /\ PageHoldsAll(Cardinality(MarkedRecords)))
       => /\ Len(outcome.value.docs) = Len(result.docs)
          /\ \A p \in Parents :
               Cardinality(RowsOwnedBy(p)) = (IF MarkedOf(p) # {} THEN 1 ELSE 0)

\* Strategy B returning one entity for a marked parentId and none for a
\* parentId that has records but no mark.
C3_Witness ==
  /\ StrategyB /\ HasReturned /\ Unfiltered
  /\ \A p \in Parents : Cardinality(MarkedOf(p)) <= 1
  /\ PageHoldsAll(Cardinality(MarkedRecords))
  /\ \E p, q \in StoreParents :
       /\ MarkedOf(p) # {} /\ Cardinality(RowsOwnedBy(p)) = 1
       /\ MarkedOf(q) = {} /\ RowsOwnedBy(q) = {}

\* C4: in every returned entity the identifier is the owning parentId and
\* createdAt and updatedAt are the metadata of the winning version record,
\* whatever fields the payload carries.
C4_MetadataWins ==
  HasReturned
    => \A i \in 1..Len(outcome.value.docs) :
         /\ outcome.value.docs[i]._id = OwnerOfRow(i)
         /\ ("id" \in DOMAIN outcome.value.docs[i] => outcome.value.docs[i].id = OwnerOfRow(i))
         /\ outcome.value.docs[i].createdAt = result.docs[i].createdAt
         /\ outcome.value.docs[i].updatedAt = result.docs[i].updatedAt

\* C5: once a paginator has been handed the options, the remapped sort has one
\* entry per requested entry; the keys id, createdAt and updatedAt map to
\* themselves and every other key is nested once under version; asc becomes 1
\* and desc becomes -1.
C5_SortRemap ==
  SortRemapped
    => /\ Len(options.sort) = Len(args.paginationOptions.sort)
       /\ \A i \in 1..Len(args.paginationOptions.sort) :
            LET req == args.paginationOptions.sort[i]
                got == options.sort[i]
                kept == {<<"id">>, <<"createdAt">>, <<"updatedAt">>}
            IN  /\ req.key \in kept => got.key = req.key
                /\ req.key \notin kept => got.key = <<"version">> \o req.key
                /\ req.order = "asc" => got.order = 1
                /\ req.order = "desc" => got.order = -1

\* C6: without pagination options, a call whose store operations all succeeded
\* ends with a result that has one normalized entity per row of the store.
C6_UnpaginatedReturns ==
  (Done /\ ~args.paginationOptions.present /\ failedOp = "none" /\ floating # "pending")
    => /\ outcome.kind = "returned"
       /\ "docs" \in DOMAIN result
       /\ Len(outcome.value.docs) = Len(result.docs)

\* C7: a returned value has the fields of the store's result, each one other
\* than docs with the store's value, and docs has the length and the order of
\* the store's docs, the i-th entity carrying the payload fields and the
\* timestamps of the i-th row.
C7_PaginatedShapePassesThrough ==
  HasReturned
    => /\ DOMAIN outcome.value = DOMAIN result
       /\ \A f \in DOMAIN result \ {"docs"} : outcome.value[f] = result[f]
       /\ Len(outcome.value.docs) = Len(result.docs)
       /\ \A i \in 1..Len(result.docs) :
            /\ outcome.value.docs[i].status = result.docs[i].version.status
            /\ outcome.value.docs[i].createdAt = result.docs[i].createdAt
            /\ outcome.value.docs[i].updatedAt = result.docs[i].updatedAt

\* A first page of one entity with a next page behind it, returned.
C7_Witness ==
  /\ HasReturned
  /\ args.paginationOptions.present
  /\ result.hasNextPage
  /\ result.total = 2
  /\ Len(outcome.value.docs) = 1

FlagIsSet == args.payload = [config |-> [database |-> [queryDrafts_2_0 |-> TRUE]]]

V1Ops == {"buildQuery", "aggregate", "aggregatePaginate", "exec"}

V2Ops == {"buildQuery", "paginate", "find"}

\* C8: a call invokes exactly one strategy, Strategy B when the flag is set and
\* Strategy A when it is unset or the configuration is absent; only that
\* strategy's operations are issued, on the caller's arguments.
C8_Dispatch ==
  /\ pc = "idle" => invoked = <<>> /\ ops = <<>>
  /\ pc # "idle"
       => /\ invoked = <<IF FlagIsSet THEN "V2" ELSE "V1">>
          /\ \A k \in 1..Len(ops) : ops[k] \in (IF FlagIsSet THEN V2Ops ELSE V1Ops)
  /\ (StrategyB /\ pc \notin {"idle", "V2"}) => built.access = args.accessResult

\* A call on a payload object without configuration, resolved by Strategy A.
C8_Witness ==
  /\ HasReturned
  /\ "config" \notin DOMAIN args.payload
  /\ StrategyA

\* C9: every store or query-builder operation is issued at most once per call,
\* and when one fails the call ends with that failure.
C9_FailurePropagates ==
  /\ \A j, k \in 1..Len(ops) : ops[j] = ops[k] => j = k
  /\ failedOp # "none"
       => /\ Done
          /\ outcome = Thrown(StoreFailure(failedOp))
          /\ ops[Len(ops)] = failedOp

\* Every parentId of the store has exactly one record marked latest, and that
\* record is strictly the most recently updated one.
WellMarked ==
  \A p \in StoreParents :
    /\ Cardinality(MarkedOf(p)) = 1
    /\ \A i \in MarkedOf(p) : \A j \in RecordsOf(p) \ {i} : store[j].updatedAt < store[i].updatedAt

\* What Strategy A makes of the arguments and the store of this call.
StrategyAOutcome ==
  LET p == args.paginationOptions
      b == [where |-> appendVersionToQueryKey(args.where),
            access |-> IF hasWhereAccessResult(args.accessResult)
                       THEN [isWhere |-> TRUE,
                             where |-> appendVersionToQueryKey(args.accessResult.where)]
                       ELSE AllowAll]
  IN  IF ~p.present THEN V1Outcome(PendingPromise)
      ELSE IF ~p.hasSort THEN Thrown(TypeError)
      ELSE V1Outcome(StoreAggregatePaginate(store, Pipeline(buildQuery(b)), V1Options(p)))

\* C10: on a well-marked store, Strategy B ends as Strategy A ends on the same
\* filter, access result and pagination options: the same entities with the
\* same fields.
C10_StrategiesAgree ==
  (StrategyB /\ Done /\ failedOp = "none" /\ store # <<>> /\ WellMarked)
    => /\ outcome.kind = StrategyAOutcome.kind
       /\ outcome.kind = "returned" => outcome.value.docs = StrategyAOutcome.value.docs

====
